---- MODULE Spec2Model ----
(***************************************************************************)
(* Model of openapi-to-har.js: the translation of an OpenAPI document into *)
(* HAR request descriptors (getEndpoint = createHar, getAll =              *)
(* openApiToHarList).                                                      *)
(*                                                                         *)
(* Encoding of JavaScript values                                           *)
(*   object      a function from property names (strings) to values; a     *)
(*               property is `undefined' when its name is not in DOMAIN    *)
(*               or when it holds Undefined                                *)
(*   array       a sequence                                                *)
(*   string      a string; a scalar that the code converts with `+ ""'     *)
(*               is [str |-> s] or [num |-> n]                             *)
(*   "$ref"      the reference string, kept as the sequence of the parts   *)
(*               that ref.split('/') returns ("#/a/b" is <<"#","a","b">>)  *)
(*   reference   a property that was assigned an object that also lives    *)
(*   sharing     elsewhere in the document holds [alias |-> location]:     *)
(*               reads go through it, writes land on the shared object     *)
(*   exceptions  every operation returns [doc, ret] or [doc, thrown]       *)
(***************************************************************************)
EXTENDS Integers, Sequences, FiniteSets, TLC

VARIABLES openApi, keyOrder, calls

vars == <<openApi, keyOrder, calls>>

(***************************************************************************)
(* JavaScript primitives                                                   *)
(***************************************************************************)
Undefined == [undefined |-> TRUE]

(* the object {}: no property but the prototype link every object carries *)
EmptyObject == "__proto__" :> "Object"

Null == [null |-> TRUE]

(* the properties the code assigns to, which may therefore hold undefined *)
AssignedProperties == {"schema", "requestBody"}

(* typeof obj[k] !== 'undefined' *)
Has(obj, k) ==
  k \in DOMAIN obj /\ (k \in AssignedProperties => obj[k] # Undefined)

Ret(doc, v) == [doc |-> doc, ret |-> v]

Throw(doc, e) == [doc |-> doc, thrown |-> e]

IsThrown(r) == "thrown" \in DOMAIN r

LowerTable ==
  [Foo |-> "foo", FOO |-> "foo", Bar |-> "bar", Query |-> "query",
   Header |-> "header", Path |-> "path", Body |-> "body",
   formData |-> "formdata", apiKey |-> "apikey", Authorization |-> "authorization",
   Accept |-> "accept", Bearer |-> "bearer", Basic |-> "basic"]

toLowerCase(s) == IF s \in DOMAIN LowerTable THEN LowerTable[s] ELSE s

UpperTable ==
  [string |-> "STRING", integer |-> "INTEGER", object |-> "OBJECT",
   get |-> "GET", post |-> "POST", parameters |-> "PARAMETERS",
   rex |-> "REX", tom |-> "TOM"]

toUpperCase(s) == IF s \in DOMAIN UpperTable THEN UpperTable[s] ELSE s

ToStr(v) == IF "num" \in DOMAIN v THEN ToString(v.num) ELSE v.str

(***************************************************************************)
(* Property order: JavaScript enumerates an object's own properties in     *)
(* insertion order; keyOrder is that order for the document at hand.       *)
(***************************************************************************)
OrderedKeys(obj) == SelectSeq(keyOrder, LAMBDA k : k \in DOMAIN obj)

(***************************************************************************)
(* Locations and shared objects                                            *)
(***************************************************************************)
IsAlias(v) == "alias" \in DOMAIN v

RECURSIVE GetAt(_, _)
GetAt(obj, loc) ==
  IF Len(loc) = 0 THEN obj ELSE GetAt(obj[Head(loc)], Tail(loc))

RECURSIVE SetAt(_, _, _)
SetAt(obj, loc, v) ==
  IF Len(loc) = 0 THEN v
  ELSE LET k == Head(loc) IN
       IF k \in DOMAIN obj
       THEN [obj EXCEPT ![k] = SetAt(obj[k], Tail(loc), v)]
       ELSE (k :> v) @@ obj

Deref(doc, v) == IF IsAlias(v) THEN GetAt(doc, v.alias) ELSE v

(***************************************************************************)
(* resolveRef (634-648).  Returns [ret |-> value, loc |-> location] where  *)
(* loc is the place of the returned object in the document (<<>> for a     *)
(* value that is not an object of the document), or [thrown |-> e].        *)
(***************************************************************************)
RECURSIVE recursive(_, _, _, _, _)
recursive(doc, parts, obj, loc, index) ==
  IF obj = Undefined THEN [thrown |-> "TypeError"]
  ELSE
    LET k == parts[index]
        raw == IF k \in DOMAIN obj THEN obj[k] ELSE Undefined
        val == Deref(doc, raw)
        at == IF raw = Undefined THEN <<>>
              ELSE IF IsAlias(raw) THEN raw.alias ELSE loc \o <<k>>
    IN IF index + 1 <= Len(parts)
       THEN recursive(doc, parts, val, at, index + 1)
       ELSE [ret |-> val, loc |-> at]

resolveRef(doc, ref) ==
  IF Len(ref) <= 1 THEN [ret |-> EmptyObject, loc |-> <<>>]
  ELSE recursive(doc, ref, doc, <<>>, 2)

IsLocalRef(obj) == "$ref" \in DOMAIN obj /\ obj["$ref"][1] = "#"

(***************************************************************************)
(* A path item's `parameters' is an array: none of the named properties    *)
(* the code reads from an operation is defined on it.                      *)
(***************************************************************************)
Operation(doc, path, method) ==
  IF method = "parameters" THEN EmptyObject ELSE doc.paths[path][method]

(***************************************************************************)
(* The reference resolution that opens every parameter loop (269-282, and  *)
(* its copies 79-92, 133-146, 305-318).  listLoc is the location of the    *)
(* parameter list and i the index in it.  Returns the document after the   *)
(* assignments to param.schema and param.schema.type, and the parameter    *)
(* as the loop body then reads it (param.schema read through sharing).     *)
(***************************************************************************)
AssignSchema(doc, listLoc, i, ploc, v) ==
  IF ploc # <<>>
  THEN SetAt(doc, ploc \o <<"schema">>, v)
  ELSE LET list == GetAt(doc, listLoc)
       IN SetAt(doc, listLoc, [list EXCEPT ![i] = [@ EXCEPT !["schema"] = v]])

(* 270-273: the list entry, or what its "$ref" resolves to *)
ParamOrRef(doc, raw) ==
  IF IsLocalRef(raw) THEN resolveRef(doc, raw["$ref"])
  ELSE [ret |-> raw, loc |-> <<>>]

(* 279-280 with the default written to param.type, not param.schema.type *)
AssignResolvedTypingParameter(doc, listLoc, i, param, ploc, s) ==
  IF IsThrown(s) THEN Throw(doc, s.thrown)
  ELSE
    LET shared == s.loc # <<>>
        doc1 == AssignSchema(doc, listLoc, i, ploc,
                             IF shared THEN [alias |-> s.loc] ELSE s.ret)
    IN
    IF s.ret = Undefined THEN Throw(doc1, "TypeError")
    ELSE IF Has(s.ret, "type")
         THEN Ret(doc1, [param EXCEPT !["schema"] = s.ret])
         ELSE Ret(SetAt(doc1,
                        (IF ploc # <<>> THEN ploc ELSE listLoc \o <<i>>) \o <<"type">>,
                        "object"),
                  ("type" :> "object") @@ [param EXCEPT !["schema"] = s.ret])

(* 277-281, s being what resolveRef returned for param.schema['$ref'] *)
AssignResolved(doc, listLoc, i, param, ploc, s) ==
  IF IsThrown(s) THEN Throw(doc, s.thrown)
  ELSE
    LET shared == s.loc # <<>>
        doc1 == AssignSchema(doc, listLoc, i, ploc,
                             IF shared THEN [alias |-> s.loc] ELSE s.ret)
        typed == ("type" :> "object") @@ s.ret
    IN
    IF s.ret = Undefined THEN Throw(doc1, "TypeError")
    ELSE IF Has(s.ret, "type")
         THEN Ret(doc1, [param EXCEPT !["schema"] = s.ret])
         ELSE Ret(IF shared
                  THEN SetAt(doc1, s.loc \o <<"type">>, "object")
                  ELSE AssignSchema(doc1, listLoc, i, ploc, typed),
                  [param EXCEPT !["schema"] = typed])

(* 274-282, schema being param.schema *)
ResolveSchema(doc, listLoc, i, param, ploc, schema) ==
  IF ~IsLocalRef(schema) THEN Ret(doc, [param EXCEPT !["schema"] = schema])
  ELSE AssignResolved(doc, listLoc, i, param, ploc, resolveRef(doc, schema["$ref"]))

(* 274 onwards, r being the outcome of 270-273 *)
ResolvedParam(doc, listLoc, i, r) ==
  IF IsThrown(r) THEN Throw(doc, r.thrown)
  ELSE IF r.ret = Undefined THEN Throw(doc, "TypeError")
  ELSE IF ~Has(r.ret, "schema") THEN Ret(doc, r.ret)
  ELSE ResolveSchema(doc, listLoc, i, r.ret, r.loc, Deref(doc, r.ret.schema))

ResolveParam(doc, listLoc, i) ==
  ResolvedParam(doc, listLoc, i, ParamOrRef(doc, GetAt(doc, listLoc)[i]))

IsIn(param, where) == Has(param, "in") /\ toLowerCase(param["in"]) = where

(***************************************************************************)
(* 'SOME_' + (param.type || param.schema.type).toUpperCase() + '_VALUE'    *)
(* (284, 320, 458, 486): [ret |-> string] or [thrown |-> "TypeError"].     *)
(***************************************************************************)
Placeholder(param) ==
  IF Has(param, "type")
  THEN [ret |-> "SOME_" \o toUpperCase(param.type) \o "_VALUE"]
  ELSE IF ~Has(param, "schema") THEN [thrown |-> "TypeError"]
  ELSE IF ~Has(param.schema, "type") THEN [thrown |-> "TypeError"]
  ELSE [ret |-> "SOME_" \o toUpperCase(param.schema.type) \o "_VALUE"]

(* 284-291 and 320-327 *)
QueryValue(param, values) ==
  LET ph == Placeholder(param) IN
  IF IsThrown(ph) THEN ph
  ELSE IF param.name \in DOMAIN values THEN [ret |-> ToStr(values[param.name])]
  ELSE IF Has(param, "default") THEN [ret |-> ToStr(param.default)]
  ELSE IF Has(param, "schema") /\ Has(param.schema, "example")
       THEN [ret |-> ToStr(param.schema.example)]
  ELSE ph

(* the removal as it would be if entries were matched on their exact name *)
RemoveByExactName(entries, lname) ==
  SelectSeq(entries, LAMBDA e : e.name # lname)

(* _.remove(array, predicate on the lower-cased name) *)
RemoveByName(entries, lname) ==
  SelectSeq(entries, LAMBDA e : toLowerCase(e.name) # lname)

(* indexOf(x) > 0 in place of indexOf(x) > -1: a match at index 0 is missed *)
ContainsBeyondFirst(seq, x) == \E j \in 2..Len(seq) : seq[j] = x

(* array.indexOf(x) > -1 *)
Contains(seq, x) == \E j \in 1..Len(seq) : seq[j] = x

(***************************************************************************)
(* getQueryStrings (257-345).  acc = [queryStrings, definedQueryStrings].  *)
(***************************************************************************)
RECURSIVE QueryPathLevel(_, _, _, _, _)

(* 283-298, p being the parameter after 269-282 *)
QueryPathStep(listLoc, i, values, acc, p) ==
  IF IsThrown(p) THEN p
  ELSE IF ~IsIn(p.ret, "query")
       THEN QueryPathLevel(p.doc, listLoc, i + 1, values, acc)
  ELSE
    LET v == QueryValue(p.ret, values) IN
    IF IsThrown(v) THEN Throw(p.doc, v.thrown)
    ELSE QueryPathLevel(p.doc, listLoc, i + 1, values,
           [queryStrings |-> Append(acc.queryStrings,
                                    [name |-> p.ret.name, value |-> v.ret]),
            definedQueryStrings |-> Append(acc.definedQueryStrings,
                                           toLowerCase(p.ret.name))])

QueryPathLevel(doc, listLoc, i, values, acc) ==
  IF i > Len(GetAt(doc, listLoc)) THEN Ret(doc, acc)
  ELSE QueryPathStep(listLoc, i, values, acc, ResolveParam(doc, listLoc, i))

RECURSIVE QueryMethodLevel(_, _, _, _, _)

(* 319-340, p being the parameter after 305-318 *)
QueryMethodStep(listLoc, i, values, acc, p) ==
  IF IsThrown(p) THEN p
  ELSE IF ~IsIn(p.ret, "query")
       THEN QueryMethodLevel(p.doc, listLoc, i + 1, values, acc)
  ELSE
    LET v == QueryValue(p.ret, values)
        lname == toLowerCase(p.ret.name)
        known == Contains(acc.definedQueryStrings, lname)
        kept == IF known THEN RemoveByName(acc.queryStrings, lname)
                ELSE acc.queryStrings
    IN
    IF IsThrown(v) THEN Throw(p.doc, v.thrown)
    ELSE QueryMethodLevel(p.doc, listLoc, i + 1, values,
           [queryStrings |-> Append(kept, [name |-> p.ret.name, value |-> v.ret]),
            definedQueryStrings |->
              IF known THEN acc.definedQueryStrings
              ELSE Append(acc.definedQueryStrings, lname)])

QueryMethodLevel(doc, listLoc, i, values, acc) ==
  IF i > Len(GetAt(doc, listLoc)) THEN Ret(doc, acc)
  ELSE QueryMethodStep(listLoc, i, values, acc, ResolveParam(doc, listLoc, i))

(* 345: return queryStrings *)
QueryResult(b) == IF IsThrown(b) THEN b ELSE Ret(b.doc, b.ret.queryStrings)

(* 302-343, a being the outcome of the path-level loop *)
QueryAfterPathLevel(path, method, values, a) ==
  IF IsThrown(a) THEN a
  ELSE IF Has(Operation(a.doc, path, method), "parameters")
       THEN QueryResult(QueryMethodLevel(a.doc, <<"paths", path, method, "parameters">>,
                                         1, values, a.ret))
       ELSE QueryResult(a)

getQueryStrings(doc, path, method, values) ==
  QueryAfterPathLevel(path, method, values,
    IF Has(doc.paths[path], "parameters")
    THEN QueryPathLevel(doc, <<"paths", path, "parameters">>, 1, values,
                        [queryStrings |-> <<>>, definedQueryStrings |-> <<>>])
    ELSE Ret(doc, [queryStrings |-> <<>>, definedQueryStrings |-> <<>>]))

(***************************************************************************)
(* getFullPath (355-374).  The path template is handled as the sequence of *)
(* its literal and "{name}" pieces; String.replace substitutes the first   *)
(* occurrence only.                                                        *)
(***************************************************************************)
PathPieces ==
  ("/pets/{id}" :> <<"/pets/", "{id}">>) @@
  ("/pets/{id}/toys/{toy}" :> <<"/pets/", "{id}", "/toys/", "{toy}">>) @@
  ("/pets" :> <<"/pets">>)

RECURSIVE Join(_)
Join(pieces) ==
  IF Len(pieces) = 0 THEN "" ELSE Head(pieces) \o Join(Tail(pieces))

ReplaceFirst(pieces, pattern, replacement) ==
  LET hits == {j \in 1..Len(pieces) : pieces[j] = pattern} IN
  IF hits = {} THEN pieces
  ELSE LET first == CHOOSE j \in hits : \A h \in hits : j <= h
       IN [pieces EXCEPT ![first] = replacement]

RECURSIVE FullPathLoop(_, _, _, _)

(* 366-370, r being the outcome of 361-365 *)
FullPathStep(doc, parameters, i, fullPath, r) ==
  IF IsThrown(r) THEN r
  ELSE IF r.ret = Undefined THEN [thrown |-> "TypeError"]
  ELSE IF IsIn(r.ret, "path") /\ Has(r.ret, "example")
       THEN FullPathLoop(doc, parameters, i + 1,
              ReplaceFirst(fullPath, "{" \o r.ret.name \o "}", ToStr(r.ret.example)))
       ELSE FullPathLoop(doc, parameters, i + 1, fullPath)

FullPathLoop(doc, parameters, i, fullPath) ==
  IF i > Len(parameters) THEN [ret |-> fullPath]
  ELSE FullPathStep(doc, parameters, i, fullPath, ParamOrRef(doc, parameters[i]))

(* 357: paths[path].parameters || paths[path][method].parameters *)
ChosenParameters(doc, path, method) ==
  IF Has(doc.paths[path], "parameters") THEN <<doc.paths[path].parameters>>
  ELSE IF Has(Operation(doc, path, method), "parameters")
       THEN <<Operation(doc, path, method).parameters>>
       ELSE <<>>

(* 374: return fullPath *)
FullPathResult(r) == IF IsThrown(r) THEN r ELSE [ret |-> Join(r.ret)]

getFullPath(doc, path, method) ==
  LET chosen == ChosenParameters(doc, path, method) IN
  IF chosen = <<>> THEN [ret |-> Join(PathPieces[path])]
  ELSE FullPathResult(FullPathLoop(doc, chosen[1], 1, PathPieces[path]))

(***************************************************************************)
(* getBaseUrl (228-245)                                                    *)
(***************************************************************************)
(* the base URL with basePath appended even when it is "/" *)
getBaseUrlKeepingRoot(doc) ==
  IF Has(doc, "servers")
  THEN IF Len(doc.servers) = 0 THEN [thrown |-> "TypeError"]
       ELSE [ret |-> doc.servers[1].url]
  ELSE
    LET scheme == IF Has(doc, "schemes") THEN doc.schemes[1] ELSE "http"
        host == IF Has(doc, "host") THEN doc.host ELSE "undefined"
    IN IF ~Has(doc, "basePath")
       THEN [ret |-> scheme \o "://" \o host]
       ELSE [ret |-> scheme \o "://" \o host \o doc.basePath]

getBaseUrl(doc) ==
  IF Has(doc, "servers")
  THEN IF Len(doc.servers) = 0 THEN [thrown |-> "TypeError"]
       ELSE [ret |-> doc.servers[1].url]
  ELSE
    LET scheme == IF Has(doc, "schemes") THEN doc.schemes[1] ELSE "http"
        host == IF Has(doc, "host") THEN doc.host ELSE "undefined"
    IN IF ~Has(doc, "basePath") \/ doc.basePath = "/" \/ doc.basePath = ""
       THEN [ret |-> scheme \o "://" \o host]
       ELSE [ret |-> scheme \o "://" \o host \o doc.basePath]

(***************************************************************************)
(* getHeadersArray (385-593)                                               *)
(***************************************************************************)
RECURSIVE HeadersOf(_, _)
HeadersOf(name, types) ==
  IF Len(types) = 0 THEN <<>>
  ELSE <<[name |-> name, value |-> Head(types)]>> \o HeadersOf(name, Tail(types))

(* 389-408 *)
AcceptHeaders(doc, pathObj) ==
  IF Has(pathObj, "consumes") THEN HeadersOf("accept", pathObj.consumes)
  ELSE IF Has(doc, "consumes") THEN HeadersOf("accept", doc.consumes)
  ELSE <<>>

(* 410-429 *)
ContentTypeHeaders(doc, pathObj) ==
  IF Has(pathObj, "produces") THEN HeadersOf("content-type", pathObj.produces)
  ELSE IF Has(doc, "produces") THEN HeadersOf("content-type", doc.produces)
  ELSE <<>>

(* 431-439 *)
RequestBodyHeaders(doc, pathObj) ==
  IF ~Has(pathObj, "requestBody") THEN <<>>
  ELSE LET requestBody == Deref(doc, pathObj.requestBody) IN
       IF ~Has(requestBody, "content") THEN <<>>
       ELSE HeadersOf("content-type", OrderedKeys(requestBody.content))

(* param with its schema read through sharing *)
View(doc, param) ==
  IF Has(param, "schema")
  THEN [param EXCEPT !["schema"] = Deref(doc, param.schema)]
  ELSE param

(* 447-463; acc = [headers, definedHeaders] *)
RECURSIVE HeaderPathLevel(_, _, _, _)

(* 455-462, r being the outcome of 449-453 *)
HeaderPathStep(doc, parameters, k, acc, r) ==
  IF IsThrown(r) THEN r
  ELSE IF r.ret = Undefined THEN [thrown |-> "TypeError"]
  ELSE IF ~IsIn(r.ret, "header") THEN HeaderPathLevel(doc, parameters, k + 1, acc)
  ELSE
    LET v == Placeholder(View(doc, r.ret)) IN
    IF IsThrown(v) THEN v
    ELSE HeaderPathLevel(doc, parameters, k + 1,
           [headers |-> Append(acc.headers, [name |-> r.ret.name, value |-> v.ret]),
            definedHeaders |-> Append(acc.definedHeaders, toLowerCase(r.ret.name))])

HeaderPathLevel(doc, parameters, k, acc) ==
  IF k > Len(parameters) THEN [ret |-> acc]
  ELSE HeaderPathStep(doc, parameters, k, acc, ParamOrRef(doc, parameters[k]))

(* 467-490 *)
RECURSIVE HeaderMethodLevel(_, _, _, _)

(* 476-488, r being the outcome of 470-474 *)
HeaderMethodStep(doc, parameters, k, acc, r) ==
  IF IsThrown(r) THEN r
  ELSE IF r.ret = Undefined THEN [thrown |-> "TypeError"]
  ELSE IF ~IsIn(r.ret, "header") THEN HeaderMethodLevel(doc, parameters, k + 1, acc)
  ELSE
    LET lname == toLowerCase(r.ret.name)
        known == Contains(acc.definedHeaders, lname)
        kept == IF known THEN RemoveByName(acc.headers, lname) ELSE acc.headers
        v == Placeholder(View(doc, r.ret))
    IN IF IsThrown(v) THEN v
       ELSE HeaderMethodLevel(doc, parameters, k + 1,
              [headers |-> Append(kept, [name |-> r.ret.name, value |-> v.ret]),
               definedHeaders |-> IF known THEN acc.definedHeaders
                                  ELSE Append(acc.definedHeaders, lname)])

HeaderMethodLevel(doc, parameters, k, acc) ==
  IF k > Len(parameters) THEN [ret |-> acc]
  ELSE HeaderMethodStep(doc, parameters, k, acc, ParamOrRef(doc, parameters[k]))

(***************************************************************************)
(* Security (492-573).  auth = [basicAuthDef, apiKeyAuthDef, oauthDef],    *)
(* each <<>> while undefined and <<v>> once assigned v.                    *)
(***************************************************************************)
NoAuth == [basicAuthDef |-> <<>>, apiKeyAuthDef |-> <<>>, oauthDef |-> <<>>]

(* 498-502 and 537-541: [ret |-> <<secScheme, secDefinition>>] *)
SecDefinition(doc, requirement) ==
  LET keys == OrderedKeys(requirement)
      defs == IF Has(doc, "securityDefinitions") THEN <<doc.securityDefinitions>>
              ELSE IF Has(doc, "components")
                      /\ Has(doc.components, "securitySchemes")
                   THEN <<doc.components.securitySchemes>>
                   ELSE <<>>
  IN IF defs = <<>> \/ Len(keys) = 0 \/ ~Has(defs[1], keys[1])
     THEN [thrown |-> "TypeError"]
     ELSE [ret |-> <<keys[1], defs[1][keys[1]]>>]

(* the switch at 510-532 and at 549-571 *)
Classify(auth, secScheme, secDefinition, authType, authScheme) ==
  CASE authType = "basic" -> [auth EXCEPT !.basicAuthDef = <<secScheme>>]
    [] authType = "apikey" ->
         IF Has(secDefinition, "in") /\ secDefinition["in"] = "header"
         THEN [auth EXCEPT !.apiKeyAuthDef = <<secDefinition>>]
         ELSE auth
    [] authType = "oauth2" -> [auth EXCEPT !.oauthDef = <<secScheme>>]
    [] authType = "http" ->
         (CASE authScheme = "bearer" -> [auth EXCEPT !.oauthDef = <<secScheme>>]
            [] authScheme = "basic" -> [auth EXCEPT !.basicAuthDef = <<secScheme>>]
            [] OTHER -> auth)
    [] OTHER -> auth

(* 496-533: operation-level security *)
RECURSIVE SecurityMethodLevel(_, _, _, _)
SecurityMethodLevel(doc, security, l, auth) ==
  IF l > Len(security) THEN [ret |-> auth]
  ELSE
    LET d == SecDefinition(doc, security[l]) IN
    IF IsThrown(d) THEN d
    ELSE
      LET secScheme == d.ret[1]
          secDefinition == d.ret[2]
          authType == toLowerCase(secDefinition.type)
          authScheme == IF authType # "apikey" /\ Has(secDefinition, "scheme")
                        THEN toLowerCase(secDefinition.scheme)
                        ELSE "null"
      IN SecurityMethodLevel(doc, security, l + 1,
           Classify(auth, secScheme, secDefinition, authType, authScheme))

(* 534-573: document-level security *)
RECURSIVE SecurityDocumentLevel(_, _, _, _)
SecurityDocumentLevel(doc, security, m, auth) ==
  IF m > Len(security) THEN [ret |-> auth]
  ELSE
    LET d == SecDefinition(doc, security[m]) IN
    IF IsThrown(d) THEN d
    ELSE
      LET secScheme == d.ret[1]
          secDefinition == d.ret[2]
          authType == toLowerCase(secDefinition.type)
          needsScheme == authType # "apikey" /\ authType # "oauth2"
          authScheme == IF needsScheme THEN toLowerCase(secDefinition.scheme)
                        ELSE "null"
      IN IF needsScheme /\ ~Has(secDefinition, "scheme")
         THEN [thrown |-> "TypeError"]
         ELSE SecurityDocumentLevel(doc, security, m + 1,
                Classify(auth, secScheme, secDefinition, authType, authScheme))

(* the chain with the bearer branch tested before the API-key branch *)
AuthHeadersBearerFirst(auth, definedHeaders) ==
  IF auth.basicAuthDef # <<>> /\ ~Contains(definedHeaders, "authorization")
  THEN <<[name |-> "Authorization", value |-> "Basic " \o "REPLACE_BASIC_AUTH"]>>
  ELSE IF auth.oauthDef # <<>> /\ ~Contains(definedHeaders, "authorization")
  THEN <<[name |-> "Authorization", value |-> "Bearer " \o "REPLACE_BEARER_TOKEN"]>>
  ELSE IF auth.apiKeyAuthDef # <<>>
          /\ ~Contains(definedHeaders, toLowerCase(auth.apiKeyAuthDef[1].name))
  THEN <<[name |-> auth.apiKeyAuthDef[1].name, value |-> "REPLACE_KEY_VALUE"]>>
  ELSE <<>>

(* 575-590 *)
AuthHeaders(auth, definedHeaders) ==
  IF auth.basicAuthDef # <<>> /\ ~Contains(definedHeaders, "authorization")
  THEN <<[name |-> "Authorization", value |-> "Basic " \o "REPLACE_BASIC_AUTH"]>>
  ELSE IF auth.apiKeyAuthDef # <<>>
          /\ ~Contains(definedHeaders, toLowerCase(auth.apiKeyAuthDef[1].name))
  THEN <<[name |-> auth.apiKeyAuthDef[1].name, value |-> "REPLACE_KEY_VALUE"]>>
  ELSE IF auth.oauthDef # <<>> /\ ~Contains(definedHeaders, "authorization")
  THEN <<[name |-> "Authorization", value |-> "Bearer " \o "REPLACE_BEARER_TOKEN"]>>
  ELSE <<>>

(* the candidates found by 492-573 *)
SecurityCandidates(doc, pathObj) ==
  IF Has(pathObj, "security")
  THEN SecurityMethodLevel(doc, pathObj.security, 1, NoAuth)
  ELSE IF Has(doc, "security")
       THEN SecurityDocumentLevel(doc, doc.security, 1, NoAuth)
       ELSE [ret |-> NoAuth]

(* 466-490, a being the outcome of the path-level loop *)
HeadersAfterPathLevel(doc, pathObj, a) ==
  IF IsThrown(a) THEN a
  ELSE IF Has(pathObj, "parameters")
       THEN HeaderMethodLevel(doc, pathObj.parameters, 1, a.ret)
       ELSE a

(* the headers and definedHeaders after 386-490 *)
DeclaredHeaders(doc, path, method) ==
  LET pathObj == Operation(doc, path, method)
      start == [headers |-> AcceptHeaders(doc, pathObj) \o ContentTypeHeaders(doc, pathObj)
                              \o RequestBodyHeaders(doc, pathObj),
                definedHeaders |-> <<>>]
  IN HeadersAfterPathLevel(doc, pathObj,
       IF Has(doc.paths[path], "parameters")
       THEN HeaderPathLevel(doc, doc.paths[path].parameters, 1, start)
       ELSE [ret |-> start])

(* 575-592, given the declared headers and the candidates *)
HeadersWithAuth(declared, auth) ==
  IF IsThrown(declared) THEN declared
  ELSE IF IsThrown(auth) THEN auth
  ELSE [ret |-> declared.ret.headers
                  \o AuthHeaders(auth.ret, declared.ret.definedHeaders)]

getHeadersArray(doc, path, method) ==
  HeadersWithAuth(DeclaredHeaders(doc, path, method),
                  SecurityCandidates(doc, Operation(doc, path, method)))

(***************************************************************************)
(* The schema sampler (OpenAPISampler.sample, an external collaborator).   *)
(* It returns one value for a schema and raises when the schema, or one of *)
(* its properties, is a "$ref" that names nothing in the document.  A      *)
(* sample is [obj |-> properties], [str |-> s], [num |-> n] or Null.       *)
(***************************************************************************)
SamplerTarget(doc, schema) ==
  IF "$ref" \in DOMAIN schema
  THEN LET r == resolveRef(doc, schema["$ref"]) IN
       IF IsThrown(r) \/ r.ret = Undefined THEN [thrown |-> "SamplerError"]
       ELSE [ret |-> r.ret]
  ELSE [ret |-> schema]

SampleScalar(schema) ==
  IF Has(schema, "example") THEN schema.example
  ELSE IF ~Has(schema, "type") THEN Null
  ELSE IF schema.type = "integer" THEN [num |-> 0]
  ELSE IF schema.type = "object" THEN [obj |-> EmptyObject]
  ELSE [str |-> "string"]

Sample(doc, schema) ==
  LET top == SamplerTarget(doc, schema) IN
  IF IsThrown(top) THEN top
  ELSE IF ~Has(top.ret, "properties") THEN [ret |-> SampleScalar(top.ret)]
  ELSE
    LET props == top.ret.properties
        each == [k \in DOMAIN props |-> SamplerTarget(doc, props[k])]
    IN IF \E k \in DOMAIN props : IsThrown(each[k])
       THEN [thrown |-> "SamplerError"]
       ELSE [ret |-> [obj |-> [k \in DOMAIN props |-> SampleScalar(each[k].ret)]]]

(* JSON.stringify of a sample *)
ScalarText(v) ==
  IF "num" \in DOMAIN v THEN ToString(v.num)
  ELSE IF "str" \in DOMAIN v THEN "\"" \o v.str \o "\""
  ELSE IF "obj" \in DOMAIN v THEN "{}"
  ELSE "null"

RECURSIVE MembersText(_, _)
MembersText(obj, keys) ==
  IF Len(keys) = 0 THEN ""
  ELSE "\"" \o Head(keys) \o "\":" \o ScalarText(obj[Head(keys)])
         \o (IF Len(keys) > 1 THEN "," ELSE "") \o MembersText(obj, Tail(keys))

stringify(sample) ==
  IF "obj" \in DOMAIN sample
  THEN "{" \o MembersText(sample.obj, OrderedKeys(sample.obj)) \o "}"
  ELSE ScalarText(sample)

(***************************************************************************)
(* getPayload (70-220)                                                     *)
(***************************************************************************)
(* 115-123, 169-177, 200-208 *)
AddParam(payload, item) ==
  IF payload = Null \/ ~Has(payload, "params")
  THEN [mimeType |-> "multipart/form-data", text |-> "", params |-> <<item>>]
  ELSE IF Len(payload.params) > 0
       THEN [payload EXCEPT !.params = Append(@, item)]
       ELSE payload

JsonPayload(sample) == [mimeType |-> "application/json", text |-> stringify(sample)]

(* 76-125 and 130-179; returns [doc, ret, returned] where returned is TRUE *)
(* when the loop left getPayload through `return null'                    *)
RECURSIVE PayloadLevel(_, _, _, _)

(* 109-124, after the body branch left payload1 *)
FormDataStep(doc, listLoc, i, payload1, param) ==
  IF ~IsIn(param, "formdata") THEN PayloadLevel(doc, listLoc, i + 1, payload1)
  ELSE IF ~Has(param, "type") THEN Throw(doc, "TypeError")
  ELSE PayloadLevel(doc, listLoc, i + 1,
         AddParam(payload1, [name |-> param.name,
                             value |-> "SOME_" \o toUpperCase(param.type) \o "_VALUE"]))

(* 94-107, sample being what the sampler did with param.schema *)
BodyStep(doc, listLoc, i, param, sample) ==
  IF IsThrown(sample) THEN [doc |-> doc, ret |-> Null, returned |-> TRUE]
  ELSE FormDataStep(doc, listLoc, i, JsonPayload(sample.ret), param)

(* 94-124, p being the parameter after 79-92 *)
PayloadStep(listLoc, i, payload, p) ==
  IF IsThrown(p) THEN p
  ELSE IF IsIn(p.ret, "body") /\ Has(p.ret, "schema")
       THEN BodyStep(p.doc, listLoc, i, p.ret, Sample(p.doc, p.ret.schema))
       ELSE FormDataStep(p.doc, listLoc, i, payload, p.ret)

PayloadLevel(doc, listLoc, i, payload) ==
  IF i > Len(GetAt(doc, listLoc))
  THEN [doc |-> doc, ret |-> payload, returned |-> FALSE]
  ELSE PayloadStep(listLoc, i, payload, ResolveParam(doc, listLoc, i))

(* 194-209 *)
RECURSIVE FormDataItems(_, _, _)
FormDataItems(obj, keys, payload) ==
  IF Len(keys) = 0 THEN [ret |-> payload]
  ELSE LET v == obj[Head(keys)] IN
       IF "str" \notin DOMAIN v THEN [thrown |-> "TypeError"]
       ELSE FormDataItems(obj, Tail(keys),
              AddParam(payload, [name |-> Head(keys),
                                 value |-> "SOME_" \o toUpperCase(v.str) \o "_VALUE"]))

(* 188-217; every schema under multipart/form-data in the modelled        *)
(* documents is one the sampler answers with an object or null            *)
RECURSIVE ContentLoop(_, _, _, _)

(* 200-208, items being the payload after the formData properties *)
ContentAfterItems(doc, content, keys, items) ==
  IF IsThrown(items) THEN items
  ELSE ContentLoop(doc, content, Tail(keys), items.ret)

(* 191-217, sample being what the sampler did with requestBody.schema *)
ContentStep(doc, content, keys, payload, sample) ==
  IF Head(keys) = "multipart/form-data"
  THEN IF IsThrown(sample) THEN sample
       ELSE IF "obj" \in DOMAIN sample.ret
            THEN ContentAfterItems(doc, content, keys,
                   FormDataItems(sample.ret.obj, OrderedKeys(sample.ret.obj), payload))
            ELSE ContentLoop(doc, content, Tail(keys), payload)
  ELSE IF Head(keys) = "application/json" \/ Head(keys) = "*/*"
  THEN IF IsThrown(sample) THEN sample
       ELSE ContentLoop(doc, content, Tail(keys), JsonPayload(sample.ret))
  ELSE ContentLoop(doc, content, Tail(keys), payload)

ContentLoop(doc, content, keys, payload) ==
  IF Len(keys) = 0 THEN [ret |-> payload]
  ELSE IF ~Has(content[Head(keys)], "schema")
       THEN ContentLoop(doc, content, Tail(keys), payload)
       ELSE ContentStep(doc, content, keys, payload,
                        Sample(doc, content[Head(keys)].schema))

(* 183, r being what resolveRef returned for requestBody['$ref'] *)
AssignRequestBody(doc, path, method, r) ==
  IF IsThrown(r) THEN Throw(doc, r.thrown)
  ELSE Ret(SetAt(doc, <<"paths", path, method, "requestBody">>,
                 IF r.loc # <<>> THEN [alias |-> r.loc] ELSE r.ret), TRUE)

(* 182-184 *)
ResolveRequestBody(doc, path, method) ==
  LET op == Operation(doc, path, method) IN
  IF ~Has(op, "requestBody") \/ "$ref" \notin DOMAIN Deref(doc, op.requestBody)
  THEN Ret(doc, TRUE)
  ELSE AssignRequestBody(doc, path, method,
                         resolveRef(doc, Deref(doc, op.requestBody)["$ref"]))

(* 220: return payload *)
PayloadResult(doc, d) ==
  IF IsThrown(d) THEN Throw(doc, d.thrown) ELSE Ret(doc, d.ret)

(* 186-219, c being the outcome of 182-184 *)
PayloadContent(path, method, payload, c) ==
  IF IsThrown(c) THEN c
  ELSE
    LET op == Operation(c.doc, path, method) IN
    IF Has(op, "requestBody") /\ Has(Deref(c.doc, op.requestBody), "content")
    THEN PayloadResult(c.doc,
           ContentLoop(c.doc, Deref(c.doc, op.requestBody).content,
                       OrderedKeys(Deref(c.doc, op.requestBody).content), payload))
    ELSE Ret(c.doc, payload)

(* 181-220, b being the outcome of the operation-level loop *)
PayloadAfterMethodLevel(path, method, b) ==
  IF IsThrown(b) THEN b
  ELSE IF b.returned THEN Ret(b.doc, Null)
  ELSE PayloadContent(path, method, b.ret, ResolveRequestBody(b.doc, path, method))

(* 129-220, a being the outcome of the path-level loop *)
PayloadAfterPathLevel(path, method, a) ==
  IF IsThrown(a) THEN a
  ELSE IF a.returned THEN Ret(a.doc, Null)
  ELSE IF Has(Operation(a.doc, path, method), "parameters")
       THEN PayloadAfterMethodLevel(path, method,
              PayloadLevel(a.doc, <<"paths", path, method, "parameters">>, 1, a.ret))
       ELSE PayloadAfterMethodLevel(path, method, a)

getPayload(doc, path, method) ==
  PayloadAfterPathLevel(path, method,
    IF Has(doc.paths[path], "parameters")
    THEN PayloadLevel(doc, <<"paths", path, "parameters">>, 1, Null)
    ELSE [doc |-> doc, ret |-> Null, returned |-> FALSE])

(***************************************************************************)
(* createHar (34-58), exported as getEndpoint                              *)
(***************************************************************************)
(* 51-55: postData is added when getPayload returned one *)
WithPostData(har, postData) ==
  IF IsThrown(postData) THEN postData
  ELSE IF postData.ret = Null THEN Ret(postData.doc, har)
  ELSE Ret(postData.doc, ("postData" :> postData.ret) @@ har)

(* 42-57, given what the builders of 44-46 returned *)
HarOf(doc, path, method, baseUrl, fullPath, headers, queryString) ==
  IF IsThrown(baseUrl) THEN Throw(doc, baseUrl.thrown)
  ELSE IF IsThrown(fullPath) THEN Throw(doc, fullPath.thrown)
  ELSE IF IsThrown(headers) THEN Throw(doc, headers.thrown)
  ELSE IF IsThrown(queryString) THEN queryString
  ELSE WithPostData([method |-> toUpperCase(method),
                     url |-> baseUrl.ret \o fullPath.ret,
                     headers |-> headers.ret,
                     queryString |-> queryString.ret,
                     httpVersion |-> "HTTP/1.1",
                     cookies |-> <<>>,
                     headersSize |-> 0,
                     bodySize |-> 0],
                    getPayload(queryString.doc, path, method))

createHar(doc, path, method, queryParamValues) ==
  HarOf(doc, path, method,
        getBaseUrl(doc),
        getFullPath(doc, path, method),
        getHeadersArray(doc, path, method),
        getQueryStrings(doc, path, method, queryParamValues))

(***************************************************************************)
(* openApiToHarList (601-625), exported as getAll.  The result is the list *)
(* or Undefined when the catch clause swallowed an exception.              *)
(***************************************************************************)
Description(doc, path, method) ==
  LET op == Operation(doc, path, method) IN
  IF Has(op, "description") /\ op.description # "" THEN op.description
  ELSE "No description available"

(* 608-619 over the <<path, method>> pairs in enumeration order *)
RECURSIVE HarListLoop(_, _, _, _)

(* 611-617, har being what createHar returned *)
HarListStep(doc, baseUrl, pairs, harList, har) ==
  IF IsThrown(har) THEN har
  ELSE HarListLoop(har.doc, baseUrl, Tail(pairs),
         Append(harList, [method |-> toUpperCase(Head(pairs)[2]),
                          url |-> baseUrl \o Head(pairs)[1],
                          description |-> Description(doc, Head(pairs)[1], Head(pairs)[2]),
                          har |-> har.ret]))

HarListLoop(doc, baseUrl, pairs, harList) ==
  IF Len(pairs) = 0 THEN Ret(doc, harList)
  ELSE HarListStep(doc, baseUrl, pairs, harList,
                   createHar(doc, Head(pairs)[1], Head(pairs)[2], EmptyObject))

RECURSIVE PairsOf(_, _)
PairsOf(paths, pathKeys) ==
  IF Len(pathKeys) = 0 THEN <<>>
  ELSE LET path == Head(pathKeys)
           methods == OrderedKeys(paths[path])
       IN [j \in 1..Len(methods) |-> <<path, methods[j]>>]
            \o PairsOf(paths, Tail(pathKeys))

(* 621-624: the list, or nothing after the catch clause *)
HarListResult(r) ==
  IF IsThrown(r) THEN Ret(r.doc, Undefined) ELSE Ret(r.doc, [harList |-> r.ret])

openApiToHarList(doc) ==
  LET baseUrl == getBaseUrl(doc) IN
  IF IsThrown(baseUrl) \/ ~Has(doc, "paths") THEN Ret(doc, Undefined)
  ELSE HarListResult(HarListLoop(doc, baseUrl.ret,
                                 PairsOf(doc.paths, OrderedKeys(doc.paths)), <<>>))

(***************************************************************************)
(* Bounds                                                                  *)
(***************************************************************************)
MaxCalls == 2

MaxParams == 2

MaxSecurity == 2

(***************************************************************************)
(* The documents the operations are applied to                             *)
(***************************************************************************)
Str(s) == [str |-> s]

Num(n) == [num |-> n]

Ref(parts) == "$ref" :> parts

SeqsUpTo(S, n) == UNION {[1..k -> S] : k \in 0..n}

(* a parameter is identified by its name and location (exact strings) *)
Identity(p) == IF "$ref" \in DOMAIN p THEN p["$ref"] ELSE <<p.name, p["in"]>>

ParameterLists(pool) ==
  {l \in SeqsUpTo(pool, MaxParams) :
     \A i, j \in 1..Len(l) : i < j => Identity(l[i]) # Identity(l[j])}

(* an optional property: <<>> when absent, <<v>> when it holds v *)
Optional(values) == {<<>>} \cup {<<v>> : v \in values}

With(obj, k, optional) ==
  IF optional = <<>> THEN obj ELSE (k :> optional[1]) @@ obj

DefaultOrder ==
  <<"/pets", "/pets/{id}", "/pets/{id}/toys/{toy}", "parameters", "get", "post",
    "multipart/form-data", "application/json", "*/*",
    "basicAuth", "httpBasic", "apiKeyAuth", "apiKeyQuery", "oauth", "bearerAuth",
    "name", "tag">>

OtherOrder ==
  <<"/pets/{id}/toys/{toy}", "/pets/{id}", "/pets", "post", "get", "parameters",
    "*/*", "application/json", "multipart/form-data",
    "bearerAuth", "oauth", "apiKeyQuery", "apiKeyAuth", "httpBasic", "basicAuth",
    "tag", "name">>

V2Base == [host |-> "api.example.com", basePath |-> "/v1"]

V3Base == [servers |-> <<[url |-> "https://x.io"]>>]

Described == [description |-> "List the pets"]

(* one path with one operation; the path-level parameter list is optional *)
OnePath(base, path, pathLevel, operation) ==
  base @@ [paths |-> (path :> With("get" :> operation, "parameters", pathLevel))]

(* ---- query parameters declared at path level and at operation level ---- *)
QueryPool ==
  { [name |-> "foo", in |-> "query", type |-> "string"],
    [name |-> "Foo", in |-> "query", type |-> "integer", default |-> Num(5)],
    [name |-> "bar", in |-> "query", schema |-> [type |-> "string", example |-> Str("x")]],
    [name |-> "bar", in |-> "header", type |-> "string"] }

QueryDocs ==
  {OnePath(V2Base, "/pets", pl, With(Described, "parameters", ol)) :
     pl \in Optional(ParameterLists(QueryPool)),
     ol \in Optional(ParameterLists(QueryPool))}

(* ---- query parameters that declare no type ---- *)
UntypedPool ==
  { [name |-> "foo", in |-> "query"],
    [name |-> "bar", in |-> "query", default |-> Str("d")],
    [name |-> "Foo", in |-> "query", schema |-> [example |-> Str("x")]],
    [name |-> "Bar", in |-> "query", type |-> "string", default |-> Num(5)] }

UntypedDocs ==
  {OnePath(V2Base, "/pets", <<>>, [parameters |-> ol]) : ol \in ParameterLists(UntypedPool)}
  \cup
  {OnePath(V2Base, "/pets", <<pl>>, Described) : pl \in ParameterLists(UntypedPool)}

(* ---- header parameters, with document-level consumes ---- *)
HeaderPool ==
  { [name |-> "Foo", in |-> "header", type |-> "string"],
    [name |-> "foo", in |-> "header", type |-> "integer"],
    [name |-> "Accept", in |-> "header", schema |-> [type |-> "string"]] }

HeaderDocs ==
  {OnePath(V2Base @@ [consumes |-> <<"application/json">>], "/pets",
           pl, With([produces |-> <<"text/plain">>], "parameters", ol)) :
     pl \in Optional(ParameterLists(HeaderPool)),
     ol \in Optional(ParameterLists(HeaderPool))}

(* ---- path templates ---- *)
PathPool ==
  { [name |-> "id", in |-> "path", example |-> Str("42")],
    [name |-> "id", in |-> "path", type |-> "integer", example |-> Num(7)],
    [name |-> "toy", in |-> "path", type |-> "string"],
    [name |-> "toy", in |-> "path", example |-> Str("ball")] }

PathDocs ==
  {OnePath(V2Base, "/pets/{id}/toys/{toy}", pl, With(Described, "parameters", ol)) :
     pl \in Optional(ParameterLists(PathPool)),
     ol \in Optional(ParameterLists(PathPool))}

(* ---- security ---- *)
SecuritySchemes ==
  [basicAuth |-> [type |-> "basic"],
   httpBasic |-> [type |-> "http", scheme |-> "Basic"],
   apiKeyAuth |-> [type |-> "apiKey", in |-> "header", name |-> "X-API-Key"],
   apiKeyQuery |-> [type |-> "apiKey", in |-> "query", name |-> "key"],
   oauth |-> [type |-> "oauth2"],
   bearerAuth |-> [type |-> "http", scheme |-> "bearer"]]

Requirement(name) == name :> <<>>

RequirementLists(n) ==
  {[j \in 1..Len(l) |-> Requirement(l[j])] : l \in SeqsUpTo(DOMAIN SecuritySchemes, n)}

DeclaredHeaderLists ==
  { <<>>,
    <<[name |-> "Authorization", in |-> "header", type |-> "string"]>>,
    <<[name |-> "x-api-key", in |-> "header", type |-> "string"]>>,
    <<[name |-> "authorization", in |-> "header", type |-> "string"],
      [name |-> "X-Api-Key", in |-> "header", type |-> "string"]>> }

SecurityPlacements == {"operation", "document", "both"}

SecurityDoc(base, placement, requirements, declared) ==
  LET operation ==
        IF placement = "document" THEN [parameters |-> declared]
        ELSE [parameters |-> declared, security |-> requirements]
      document ==
        IF placement = "operation" THEN base
        ELSE IF placement = "document" THEN base @@ [security |-> requirements]
        ELSE base @@ [security |-> <<Requirement("oauth")>>]
  IN OnePath(document, "/pets", <<>>, operation)

SecurityDocs ==
  {SecurityDoc(V2Base @@ [securityDefinitions |-> SecuritySchemes], pm, rs, dh) :
     pm \in SecurityPlacements, rs \in RequirementLists(MaxSecurity),
     dh \in DeclaredHeaderLists}
  \cup
  {SecurityDoc(V3Base @@ [components |-> [securitySchemes |-> SecuritySchemes]],
               pm, rs, dh) :
     pm \in SecurityPlacements, rs \in RequirementLists(1),
     dh \in DeclaredHeaderLists}

(* ---- payloads ---- *)
Pet ==
  [properties |-> [name |-> [type |-> "string", example |-> Str("rex")],
                   tag |-> [type |-> "string"]]]

(* a schema the sampler cannot answer: its property names nothing *)
Broken ==
  [type |-> "object",
   properties |-> [name |-> Ref(<<"#", "definitions", "Gone">>)]]

BodyPool ==
  { [name |-> "pet", in |-> "body", schema |-> Ref(<<"#", "definitions", "Pet">>)],
    [name |-> "pet", in |-> "body", schema |-> Broken],
    [name |-> "name", in |-> "formData", type |-> "string"],
    [name |-> "tag", in |-> "formData", type |-> "integer"] }

BodyDocs ==
  {OnePath(V2Base @@ [definitions |-> [Pet |-> Pet]], "/pets",
           pl, With(Described, "parameters", ol)) :
     pl \in Optional(ParameterLists(BodyPool)),
     ol \in Optional(ParameterLists(BodyPool))}

Content(type, schema) == type :> [schema |-> schema]

PetRef == Ref(<<"#", "components", "schemas", "Pet">>)

RequestBodies ==
  { [content |-> Content("application/json", PetRef)],
    [content |-> Content("application/json", Broken)],
    [content |-> Content("multipart/form-data", PetRef)],
    [content |-> Content("multipart/form-data", Broken)],
    [content |-> Content("*/*", [type |-> "integer"])],
    [content |-> Content("multipart/form-data", PetRef)
                   @@ Content("application/json", [type |-> "string"])],
    Ref(<<"#", "components", "requestBodies", "PetBody">>),
    Ref(<<"#", "components", "requestBodies", "Gone">>),
    Ref(<<"#", "gone", "requestBodies", "PetBody">>),
    Ref(<<"#">>) }

V3Components ==
  [schemas |-> [Pet |-> Pet],
   requestBodies |-> [PetBody |-> [content |-> Content("application/json", PetRef)]]]

RequestBodyDocs ==
  {OnePath(V3Base @@ [components |-> V3Components], "/pets", <<>>,
           With([requestBody |-> rb], "parameters", ol)) :
     rb \in RequestBodies,
     ol \in Optional({ <<[name |-> "name", in |-> "formData", type |-> "string"]>>,
                       <<[name |-> "Foo", in |-> "header", type |-> "string"]>> })}

(* ---- references in parameter lists ---- *)
ReferencePool ==
  { Ref(<<"#">>),
    Ref(<<"#", "components", "parameters", "limit">>),
    Ref(<<"#", "components", "parameters", "gone">>),
    Ref(<<"#", "gone", "parameters", "limit">>),
    [name |-> "foo", in |-> "query", schema |-> Ref(<<"#">>)],
    [name |-> "bar", in |-> "query", schema |-> Ref(<<"#", "components", "schemas", "Gone">>)],
    [name |-> "Bar", in |-> "query", type |-> "string",
     schema |-> Ref(<<"#", "gone", "schemas", "Lim">>)],
    [name |-> "Foo", in |-> "query", type |-> "string",
     schema |-> Ref(<<"#", "components", "schemas", "Lim">>)] }

ReferenceComponents ==
  [schemas |-> [Lim |-> [example |-> Num(10)]],
   parameters |-> [limit |-> [name |-> "limit", in |-> "query",
                              schema |-> Ref(<<"#", "components", "schemas", "Lim">>)]]]

ReferenceDocs ==
  {OnePath(V3Base @@ [components |-> ReferenceComponents], "/pets", <<>>,
           [parameters |-> ol]) : ol \in ParameterLists(ReferencePool)}
  \cup
  {OnePath(V3Base @@ [components |-> ReferenceComponents], "/pets", <<pl>>,
           Described) : pl \in ParameterLists(ReferencePool)}

(* ---- several paths and methods ---- *)
IdParameter == [name |-> "id", in |-> "path", example |-> Str("42")]

ListingDocs ==
  {V2Base @@ [paths |->
     ("/pets" :> With(ms, "parameters", pl1)) @@
     ("/pets/{id}" :> With("post" :> [parameters |-> <<IdParameter>>], "parameters", pl2))] :
     ms \in { "get" :> Described,
              ("get" :> Described) @@ ("post" :> [consumes |-> <<"text/plain">>]) },
     pl1 \in Optional({<<[name |-> "foo", in |-> "query", type |-> "string"]>>}),
     pl2 \in Optional({<<[name |-> "Foo", in |-> "header", type |-> "string"]>>})}

(* ---- the fields the base URL is built from ---- *)
BaseUrlDocs ==
  {With(With(With(With(
     [paths |-> ("/pets/{id}" :> ("get" :> [parameters |-> <<IdParameter>>]))],
     "servers", sv), "schemes", sc), "host", h), "basePath", bp) :
     sv \in Optional({ <<>>,
                       <<[url |-> "https://x.io"]>>,
                       <<[url |-> "https://x.io/"], [url |-> "https://y.io"]>> }),
     sc \in Optional({<<"https">>, <<"ws", "https">>}),
     h \in Optional({"api.example.com"}),
     bp \in Optional({"/", "/v1", ""})}

Configs ==
  {[doc |-> d, order |-> DefaultOrder] :
     d \in QueryDocs \cup UntypedDocs \cup HeaderDocs \cup PathDocs \cup SecurityDocs
           \cup BodyDocs \cup ReferenceDocs \cup BaseUrlDocs}
  \cup
  {[doc |-> d, order |-> o] :
     d \in RequestBodyDocs \cup ListingDocs, o \in {DefaultOrder, OtherOrder}}

Overrides == {EmptyObject, [foo |-> Num(7), bar |-> Str("v")]}

(***************************************************************************)
(* The state machine: callers invoke getEndpoint and getAll on one         *)
(* document object.  calls records every invocation: its arguments, the    *)
(* document it found, and what it returned or threw.                       *)
(***************************************************************************)
Init ==
  /\ \E c \in Configs : openApi = c.doc /\ keyOrder = c.order
  /\ calls = <<>>

Outcome(r) == IF IsThrown(r) THEN [thrown |-> r.thrown] ELSE [ret |-> r.ret]

Methods(doc, path) == DOMAIN doc.paths[path] \ {"parameters"}

(* the call is recorded with the document it found and what it gave back *)
Called(call, r) ==
  /\ openApi' = r.doc
  /\ calls' = Append(calls, call @@ [before |-> openApi, out |-> Outcome(r)])
  /\ UNCHANGED keyOrder

GetEndpoint(path, method, values) ==
  /\ Len(calls) < MaxCalls
  /\ Called([fn |-> "getEndpoint", path |-> path, method |-> method, values |-> values],
            createHar(openApi, path, method, values))

GetAll ==
  /\ Len(calls) < MaxCalls
  /\ Called([fn |-> "getAll"], openApiToHarList(openApi))

Next ==
  \/ \E path \in DOMAIN openApi.paths :
       \E method \in Methods(openApi, path) :
         \E values \in Overrides : GetEndpoint(path, method, values)
  \/ GetAll

Spec == Init /\ [][Next]_vars

TypeOK == Len(calls) <= MaxCalls

(***************************************************************************)
(* Vocabulary of the properties                                            *)
(***************************************************************************)
EndpointCalls == {i \in 1..Len(calls) : calls[i].fn = "getEndpoint"}

Returned(c) == "ret" \in DOMAIN c.out

PathLevelLoc(c) == <<"paths", c.path, "parameters">>

MethodLevelLoc(c) == <<"paths", c.path, c.method, "parameters">>

HasPathLevel(c) == Has(c.before.paths[c.path], "parameters")

HasMethodLevel(c) == Has(Operation(c.before, c.path, c.method), "parameters")

(* the parameters of a list, references followed, as [ret] or [thrown] *)
Resolved(doc, listLoc) ==
  [i \in 1..Len(GetAt(doc, listLoc)) |-> ResolveParam(doc, listLoc, i)]

(* the parameters of a list that are `in: where', in list order *)
ParamsIn(doc, listLoc, where) ==
  LET kept == SelectSeq(Resolved(doc, listLoc),
                        LAMBDA r : ~IsThrown(r) /\ IsIn(r.ret, where))
  IN [i \in 1..Len(kept) |-> kept[i].ret]

PathLevelParams(c, where) ==
  IF HasPathLevel(c) THEN ParamsIn(c.before, PathLevelLoc(c), where) ELSE <<>>

MethodLevelParams(c, where) ==
  IF HasMethodLevel(c) THEN ParamsIn(c.before, MethodLevelLoc(c), where) ELSE <<>>

Names(params) == {params[i].name : i \in 1..Len(params)}

NoCaseDuplicates(entries) ==
  \A i, j \in 1..Len(entries) :
    i < j => toLowerCase(entries[i].name) # toLowerCase(entries[j].name)

(* the header entries that stem from header parameters; no parameter of   *)
(* the modelled documents is spelled exactly "accept" or "content-type"   *)
ParameterHeaders(c) ==
  SelectSeq(c.out.ret.headers,
            LAMBDA e : e.name \in Names(PathLevelParams(c, "header"))
                                    \cup Names(MethodLevelParams(c, "header")))

DeclaredType(p) ==
  IF Has(p, "type") THEN p.type ELSE p.schema.type

TypeAvailable(p) == Has(p, "type") \/ (Has(p, "schema") /\ Has(p.schema, "type"))

(* the value the specification gives a query parameter (4.4) *)
ExpectedQueryValue(p, values) ==
  IF p.name \in DOMAIN values THEN ToStr(values[p.name])
  ELSE IF Has(p, "default") THEN ToStr(p.default)
  ELSE IF Has(p, "schema") /\ Has(p.schema, "example") THEN ToStr(p.schema.example)
  ELSE "SOME_" \o toUpperCase(DeclaredType(p)) \o "_VALUE"

(* the value the specification gives a header parameter (4.5, step 4) *)
ExpectedHeaderValue(p) == "SOME_" \o toUpperCase(DeclaredType(p)) \o "_VALUE"

ExpectedEntry(p, where, values) ==
  [name |-> p.name,
   value |-> IF where = "query" THEN ExpectedQueryValue(p, values)
             ELSE ExpectedHeaderValue(p)]

Output(c, where) ==
  IF where = "query" THEN c.out.ret.queryString ELSE c.out.ret.headers

CaseDistinct(params) ==
  \A i, j \in 1..Len(params) :
    i < j => toLowerCase(params[i].name) # toLowerCase(params[j].name)

(***************************************************************************)
(* C1 as stated: in every descriptor getEndpoint returns, no two           *)
(* queryString entries and no two parameter-derived header entries have    *)
(* names that are equal ignoring case, whatever the two parameter lists.   *)
(***************************************************************************)
C1_Original ==
  \A i \in EndpointCalls :
    Returned(calls[i]) =>
      /\ NoCaseDuplicates(calls[i].out.ret.queryString)
      /\ NoCaseDuplicates(ParameterHeaders(calls[i]))

(***************************************************************************)
(* C1 as amended: the queryString (the parameter-derived headers) of a     *)
(* returned descriptor has no two names equal ignoring case provided the   *)
(* path-level query (header) parameters are pairwise distinct ignoring     *)
(* case; operation-level parameters may differ only by case.               *)
(***************************************************************************)
C1_UniqueNames ==
  \A i \in EndpointCalls :
    LET c == calls[i] IN
    Returned(c) =>
      /\ CaseDistinct(PathLevelParams(c, "query"))
           => NoCaseDuplicates(c.out.ret.queryString)
      /\ CaseDistinct(PathLevelParams(c, "header"))
           => NoCaseDuplicates(ParameterHeaders(c))

(* a returned call whose operation-level list overrode a path-level name   *)
(* spelled differently, and held two spellings of one name itself          *)
C1_Witness ==
  \E i \in EndpointCalls :
    LET c == calls[i]
        pl == PathLevelParams(c, "query")
        ol == MethodLevelParams(c, "query")
    IN /\ Returned(c)
       /\ CaseDistinct(pl)
       /\ ~CaseDistinct(ol)
       /\ \E a \in 1..Len(pl), b \in 1..Len(ol) :
            /\ pl[a].name # ol[b].name
            /\ toLowerCase(pl[a].name) = toLowerCase(ol[b].name)
       /\ Len(c.out.ret.queryString) >= 1

(***************************************************************************)
(* C2: when an operation-level query (header) parameter has the name,      *)
(* ignoring case, of a path-level query (header) parameter, the output     *)
(* holds exactly one entry of that name; it carries the spelling and the   *)
(* value of the operation-level parameter (the last one of that name), and *)
(* every entry behind it was collected after that parameter was scanned.   *)
(***************************************************************************)
Overrides_OK(c, where) ==
  LET pl == PathLevelParams(c, where)
      ol == MethodLevelParams(c, where)
      out == Output(c, where)
  IN \A k \in 1..Len(ol) :
       LET n == toLowerCase(ol[k].name) IN
       ( /\ \E a \in 1..Len(pl) : toLowerCase(pl[a].name) = n
         /\ \A k2 \in (k + 1)..Len(ol) : toLowerCase(ol[k2].name) # n )
       =>
       LET hits == {j \in 1..Len(out) : toLowerCase(out[j].name) = n} IN
       /\ Cardinality(hits) = 1
       /\ \A j \in hits :
            /\ out[j] = ExpectedEntry(ol[k], where, c.values)
            /\ \A j2 \in (j + 1)..Len(out) :
                 \/ \E k2 \in (k + 1)..Len(ol) : out[j2].name = ol[k2].name
                 \/ /\ where = "header"
                    /\ j2 = Len(out)
                    /\ out[j2].name \notin Names(pl) \cup Names(ol)
                                             \cup {"accept", "content-type"}

C2_OperationLevelWins ==
  \A i \in EndpointCalls :
    Returned(calls[i]) =>
      Overrides_OK(calls[i], "query") /\ Overrides_OK(calls[i], "header")

(* a returned call in which an operation-level parameter replaced a        *)
(* path-level one of another spelling that was not last in the path list   *)
C2_Witness ==
  \E i \in EndpointCalls : \E where \in {"query", "header"} :
    LET c == calls[i]
        pl == PathLevelParams(c, where)
        ol == MethodLevelParams(c, where)
    IN /\ Returned(c)
       /\ Len(pl) >= 2 /\ Len(ol) >= 1
       /\ pl[1].name # ol[1].name
       /\ toLowerCase(pl[1].name) = toLowerCase(ol[1].name)
       /\ Len(Output(c, where)) >= 2

(***************************************************************************)
(* C3: every `in: query' parameter yields its pair, valued by the first    *)
(* available of override, default, schema example and type placeholder;    *)
(* the type is needed only when none of the first three is available.      *)
(* Stated for the calls in which nothing but the query values can fail.    *)
(***************************************************************************)
ValueAvailable(p, values) ==
  \/ p.name \in DOMAIN values
  \/ Has(p, "default")
  \/ Has(p, "schema") /\ Has(p.schema, "example")
  \/ TypeAvailable(p)

AllResolve(c) ==
  /\ HasPathLevel(c) =>
       \A r \in {Resolved(c.before, PathLevelLoc(c))[i] :
                   i \in 1..Len(GetAt(c.before, PathLevelLoc(c)))} : ~IsThrown(r)
  /\ HasMethodLevel(c) =>
       \A r \in {Resolved(c.before, MethodLevelLoc(c))[i] :
                   i \in 1..Len(GetAt(c.before, MethodLevelLoc(c)))} : ~IsThrown(r)

OtherBuildersReturn(c) ==
  /\ ~IsThrown(getBaseUrl(c.before))
  /\ ~IsThrown(getFullPath(c.before, c.path, c.method))
  /\ ~IsThrown(getHeadersArray(c.before, c.path, c.method))
  /\ ~IsThrown(getPayload(c.before, c.path, c.method))

(* the parameter at index k of the operation-level (path-level) list is    *)
(* not replaced by a later declaration of its name                         *)
Survives(pl, ol, level, k) ==
  IF level = "method"
  THEN \A k2 \in (k + 1)..Len(ol) :
         toLowerCase(ol[k2].name) # toLowerCase(ol[k].name)
  ELSE \A k2 \in 1..Len(ol) :
         toLowerCase(ol[k2].name) # toLowerCase(pl[k].name)

C3_Claim ==
  \A i \in EndpointCalls :
    LET c == calls[i]
        pl == PathLevelParams(c, "query")
        ol == MethodLevelParams(c, "query")
    IN ( /\ AllResolve(c)
         /\ OtherBuildersReturn(c)
         /\ \A k \in 1..Len(pl) : ValueAvailable(pl[k], c.values)
         /\ \A k \in 1..Len(ol) : ValueAvailable(ol[k], c.values) )
       =>
       /\ Returned(c)
       /\ \A k \in 1..Len(pl) :
            Survives(pl, ol, "path", k) =>
              \E j \in 1..Len(c.out.ret.queryString) :
                c.out.ret.queryString[j] = ExpectedEntry(pl[k], "query", c.values)
       /\ \A k \in 1..Len(ol) :
            Survives(pl, ol, "method", k) =>
              \E j \in 1..Len(c.out.ret.queryString) :
                c.out.ret.queryString[j] = ExpectedEntry(ol[k], "query", c.values)

(***************************************************************************)
(* C4.  The rendering the specification describes (4.3): every piece       *)
(* "{name}" of the template for which the list holds an `in: path'         *)
(* parameter `name' with an example becomes that example.  The templates   *)
(* of the modelled documents name each placeholder once.                   *)
(***************************************************************************)
Rendered(pieces, params) ==
  Join([j \in 1..Len(pieces) |->
          LET ks == {k \in 1..Len(params) :
                       /\ Has(params[k], "example")
                       /\ pieces[j] = "{" \o params[k].name \o "}"}
          IN IF ks = {} THEN pieces[j]
             ELSE ToStr(params[CHOOSE k \in ks : \A k2 \in ks : k <= k2].example)])

ExpectedUrl(c, params) ==
  getBaseUrl(c.before).ret \o Rendered(PathPieces[c.path], params)

(* C4 as stated: the operation-level list is used whenever the operation   *)
(* defines one, and the path-level list only when it defines none          *)
C4_Claim ==
  \A i \in EndpointCalls :
    LET c == calls[i] IN
    Returned(c) =>
      c.out.ret.url =
        ExpectedUrl(c, IF HasMethodLevel(c) THEN MethodLevelParams(c, "path")
                       ELSE PathLevelParams(c, "path"))

(***************************************************************************)
(* C5.  Authentication header synthesis (575-590).                         *)
(***************************************************************************)
BasicHeader == [name |-> "Authorization", value |-> "Basic REPLACE_BASIC_AUTH"]

BearerHeader == [name |-> "Authorization", value |-> "Bearer REPLACE_BEARER_TOKEN"]

ApiKeyHeader(definition) == [name |-> definition.name, value |-> "REPLACE_KEY_VALUE"]

(* the lower-cased names of the header parameters of both lists *)
DeclaredNames(c) ==
  {toLowerCase(n) : n \in Names(PathLevelParams(c, "header"))
                          \cup Names(MethodLevelParams(c, "header"))}

(* the candidates of the applicable security requirements *)
Candidates(c) ==
  SecurityCandidates(c.before, Operation(c.before, c.path, c.method)).ret

(* what the call appended behind the declared headers *)
Added(c) ==
  LET declared == DeclaredHeaders(c.before, c.path, c.method).ret.headers
  IN SubSeq(c.out.ret.headers, Len(declared) + 1, Len(c.out.ret.headers))

ApplicableSecurity(c) ==
  LET op == Operation(c.before, c.path, c.method) IN
  IF Has(op, "security") THEN op.security
  ELSE IF Has(c.before, "security") THEN c.before.security
  ELSE <<>>

NothingElseThrows(c) ==
  /\ ~IsThrown(getBaseUrl(c.before))
  /\ ~IsThrown(getFullPath(c.before, c.path, c.method))
  /\ ~IsThrown(DeclaredHeaders(c.before, c.path, c.method))
  /\ ~IsThrown(getQueryStrings(c.before, c.path, c.method, c.values))
  /\ ~IsThrown(getPayload(c.before, c.path, c.method))

PlainBasicOnly(c) ==
  LET security == ApplicableSecurity(c)
      d == SecDefinition(c.before, security[1])
  IN /\ Len(security) = 1
     /\ ~IsThrown(d)
     /\ d.ret[2].type = "basic"
     /\ ~Has(d.ret[2], "scheme")
     /\ "authorization" \notin DeclaredNames(c)

(* the classification of a scheme as the specification gives it (4.5, 5) *)
ClassOf(definition) ==
  LET type == toLowerCase(definition.type)
      scheme == IF Has(definition, "scheme") THEN toLowerCase(definition.scheme)
                ELSE "none"
  IN IF type = "basic" \/ (type = "http" /\ scheme = "basic") THEN "basic"
     ELSE IF type = "apikey"
          THEN IF Has(definition, "in") /\ definition["in"] = "header"
               THEN "apikey" ELSE "none"
     ELSE IF type = "oauth2" \/ (type = "http" /\ scheme = "bearer") THEN "bearer"
     ELSE "none"

(* the candidates of a list of requirements whose schemes are all defined: *)
(* the last requirement of a class is the candidate of that class          *)
ExpectedCandidates(doc, security) ==
  LET def(l) == SecDefinition(doc, security[l]).ret
      last(class) == {l \in 1..Len(security) :
                        /\ ClassOf(def(l)[2]) = class
                        /\ \A l2 \in (l + 1)..Len(security) :
                             ClassOf(def(l2)[2]) # class}
  IN [basicAuthDef |-> IF last("basic") = {} THEN <<>>
                       ELSE <<def(CHOOSE l \in last("basic") : TRUE)[1]>>,
      apiKeyAuthDef |-> IF last("apikey") = {} THEN <<>>
                        ELSE <<def(CHOOSE l \in last("apikey") : TRUE)[2]>>,
      oauthDef |-> IF last("bearer") = {} THEN <<>>
                   ELSE <<def(CHOOSE l \in last("bearer") : TRUE)[1]>>]

AllDefined(doc, security) ==
  \A l \in 1..Len(security) : ~IsThrown(SecDefinition(doc, security[l]))

C6_Claim ==
  \A i \in EndpointCalls :
    LET c == calls[i]
        security == ApplicableSecurity(c)
    IN /\ AllDefined(c.before, security) =>
            SecurityCandidates(c.before, Operation(c.before, c.path, c.method))
              = [ret |-> ExpectedCandidates(c.before, security)]
       /\ (PlainBasicOnly(c) /\ NothingElseThrows(c)) =>
            /\ Returned(c)
            /\ Len(SelectSeq(c.out.ret.headers,
                             LAMBDA e : toLowerCase(e.name) = "authorization")) = 1
            /\ \E j \in 1..Len(c.out.ret.headers) : c.out.ret.headers[j] = BasicHeader

(***************************************************************************)
(* C7: whenever the sampler raises while the payload is built, for a v2    *)
(* body parameter as for a v3 requestBody.content entry, getEndpoint       *)
(* returns a descriptor without postData and no exception reaches the      *)
(* caller.                                                                 *)
(***************************************************************************)
BodySchemas(c) ==
  {p.schema : p \in {PathLevelParams(c, "body")[k] :
                       k \in 1..Len(PathLevelParams(c, "body"))}
                    \cup {MethodLevelParams(c, "body")[k] :
                            k \in 1..Len(MethodLevelParams(c, "body"))}}

SampledContentTypes == {"multipart/form-data", "application/json", "*/*"}

ContentSchemas(c) ==
  LET r == ResolveRequestBody(c.before, c.path, c.method)
      op == Operation(r.doc, c.path, c.method)
      requestBody == Deref(r.doc, op.requestBody)
  IN IF IsThrown(r) \/ ~Has(op, "requestBody") THEN {}
     ELSE IF ~Has(requestBody, "content") THEN {}
     ELSE {requestBody.content[t].schema :
             t \in {u \in DOMAIN requestBody.content \cap SampledContentTypes :
                      Has(requestBody.content[u], "schema")}}

SamplerRaises(c) ==
  \E schema \in BodySchemas(c) \cup ContentSchemas(c) :
    IsThrown(Sample(c.before, schema))

C7_Claim ==
  \A i \in EndpointCalls :
    LET c == calls[i] IN
    /\ c.out # [thrown |-> "SamplerError"]
    /\ (SamplerRaises(c) /\ c.out # [thrown |-> "TypeError"]) =>
         Returned(c) /\ "postData" \notin DOMAIN c.out.ret

(***************************************************************************)
(* C8: for a document all of whose operations can be synthesized, getAll   *)
(* returns exactly one entry per declared path+method operation, in        *)
(* document order; its method is the method key uppercased and its har is  *)
(* what getEndpoint returns for that path and method without overrides.    *)
(***************************************************************************)
DeclaredOperations(doc) ==
  SelectSeq(PairsOf(doc.paths, OrderedKeys(doc.paths)),
            LAMBDA pm : pm[2] # "parameters")

WellFormed(doc) ==
  \A j \in 1..Len(DeclaredOperations(doc)) :
    ~IsThrown(createHar(doc, DeclaredOperations(doc)[j][1],
                        DeclaredOperations(doc)[j][2], EmptyObject))

C8_Claim ==
  \A i \in 1..Len(calls) :
    LET c == calls[i]
        ops == DeclaredOperations(c.before)
    IN (c.fn = "getAll" /\ WellFormed(c.before)) =>
         /\ "harList" \in DOMAIN c.out.ret
         /\ Len(c.out.ret.harList) = Len(ops)
         /\ \A j \in 1..Len(ops) :
              /\ c.out.ret.harList[j].method = toUpperCase(ops[j][2])
              /\ c.out.ret.harList[j].har
                   = createHar(c.before, ops[j][1], ops[j][2], EmptyObject).ret

(***************************************************************************)
(* C9: two successive getEndpoint calls on the same document object with   *)
(* the same path, method and overrides return deep-equal descriptors.      *)
(***************************************************************************)
C9_Claim ==
  \A i \in 1..(Len(calls) - 1) :
    ( /\ calls[i].fn = "getEndpoint" /\ calls[i + 1].fn = "getEndpoint"
      /\ calls[i].path = calls[i + 1].path
      /\ calls[i].method = calls[i + 1].method
      /\ calls[i].values = calls[i + 1].values
      /\ Returned(calls[i]) )
    => calls[i + 1].out = calls[i].out

(***************************************************************************)
(* C10.  References that name nothing.                                     *)
(***************************************************************************)
RECURSIVE Present(_, _)
Present(obj, keys) ==
  \/ Len(keys) = 0
  \/ /\ Head(keys) \in DOMAIN obj
     /\ obj[Head(keys)] # Undefined
     /\ Present(obj[Head(keys)], Tail(keys))

(* the reference has no path segment beyond "#" *)
NoSegments(ref) == Len(ref) <= 1

(* every key but the last one leads somewhere, the last one does not *)
MissingFinal(doc, ref) ==
  /\ Len(ref) >= 2
  /\ Present(doc, SubSeq(ref, 2, Len(ref) - 1))
  /\ ~Present(doc, SubSeq(ref, 2, Len(ref)))

(* a key before the last one leads nowhere *)
MissingIntermediate(doc, ref) ==
  Len(ref) >= 2 /\ ~Present(doc, SubSeq(ref, 2, Len(ref) - 1))

Unresolvable(doc, ref) ==
  NoSegments(ref) \/ MissingFinal(doc, ref) \/ MissingIntermediate(doc, ref)

(* the "$ref" of the entries of a parameter list *)
ParameterRefs(doc, listLoc) ==
  {GetAt(doc, listLoc)[i]["$ref"] :
     i \in {j \in 1..Len(GetAt(doc, listLoc)) : IsLocalRef(GetAt(doc, listLoc)[j])}}

(* the "$ref" of the schemas of the parameters of a list *)
SchemaRefs(doc, listLoc) ==
  LET param(i) == LET raw == GetAt(doc, listLoc)[i] IN
                  IF ~IsLocalRef(raw) THEN raw
                  ELSE IF Unresolvable(doc, raw["$ref"]) THEN EmptyObject
                  ELSE GetAt(doc, Tail(raw["$ref"]))
      schema(i) == Deref(doc, param(i).schema)
  IN {schema(i)["$ref"] :
        i \in {j \in 1..Len(GetAt(doc, listLoc)) :
                 Has(param(j), "schema") /\ IsLocalRef(schema(j))}}

ParameterLevelRefs(c) ==
  (IF HasPathLevel(c)
   THEN ParameterRefs(c.before, PathLevelLoc(c)) \cup SchemaRefs(c.before, PathLevelLoc(c))
   ELSE {})
  \cup
  (IF HasMethodLevel(c)
   THEN ParameterRefs(c.before, MethodLevelLoc(c)) \cup SchemaRefs(c.before, MethodLevelLoc(c))
   ELSE {})

RequestBodyRefs(c) ==
  LET op == Operation(c.before, c.path, c.method) IN
  IF Has(op, "requestBody") /\ "$ref" \in DOMAIN Deref(c.before, op.requestBody)
  THEN {Deref(c.before, op.requestBody)["$ref"]}
  ELSE {}

RefsUsed(c) == ParameterLevelRefs(c) \cup RequestBodyRefs(c)

(* nothing but a reference can make the call raise: the base URL and the   *)
(* security schemes are there, the sampler answers, and every query,       *)
(* header and formData parameter has the type its placeholder needs        *)
TypesDeclared(params, own) ==
  \A k \in 1..Len(params) :
    Has(params[k], "type") \/ (~own /\ TypeAvailable(params[k]))

Benign(c) ==
  /\ ~IsThrown(getBaseUrl(c.before))
  /\ ~IsThrown(SecurityCandidates(c.before, Operation(c.before, c.path, c.method)))
  /\ ~SamplerRaises(c)
  /\ TypesDeclared(PathLevelParams(c, "query"), FALSE)
  /\ TypesDeclared(MethodLevelParams(c, "query"), FALSE)
  /\ TypesDeclared(PathLevelParams(c, "header"), TRUE)
  /\ TypesDeclared(MethodLevelParams(c, "header"), TRUE)
  /\ TypesDeclared(PathLevelParams(c, "formdata"), TRUE)
  /\ TypesDeclared(MethodLevelParams(c, "formdata"), TRUE)

(* C10 as stated: every reference that cannot be resolved yields an empty  *)
(* object, and getEndpoint on a document with such a reference returns     *)
C10_Claim ==
  \A i \in EndpointCalls :
    LET c == calls[i] IN
    /\ \A ref \in RefsUsed(c) :
         Unresolvable(c.before, ref) =>
           resolveRef(c.before, ref) = [ret |-> EmptyObject, loc |-> <<>>]
    /\ Benign(c) => Returned(c)

(***************************************************************************)
(* C11: the base URL is the url of the first `servers' entry, verbatim,    *)
(* whenever the document declares servers, whatever its schemes, host and  *)
(* basePath; otherwise it is scheme://host followed by basePath, the       *)
(* scheme being the first of `schemes' or http when schemes is absent, and *)
(* basePath being left out when absent or "/".  The url of a descriptor    *)
(* getEndpoint returns is this base URL followed by the rendered path.     *)
(* Stated for the documents that have the entries the claim reads: a first *)
(* server when servers is declared, and otherwise a host and, when schemes *)
(* is declared, a first scheme.                                            *)
(***************************************************************************)
BaseDeclared(doc) ==
  IF "servers" \in DOMAIN doc THEN Len(doc.servers) >= 1
  ELSE /\ "host" \in DOMAIN doc
       /\ "schemes" \in DOMAIN doc => Len(doc.schemes) >= 1

ExpectedBaseUrl(doc) ==
  IF "servers" \in DOMAIN doc THEN doc.servers[1].url
  ELSE (IF "schemes" \in DOMAIN doc THEN doc.schemes[1] ELSE "http")
         \o "://" \o doc.host
         \o (IF "basePath" \notin DOMAIN doc \/ doc.basePath = "/" THEN ""
             ELSE doc.basePath)

C11_BaseUrl ==
  \A i \in EndpointCalls :
    LET c == calls[i] IN
    BaseDeclared(c.before) =>
      /\ getBaseUrl(c.before) = [ret |-> ExpectedBaseUrl(c.before)]
      /\ Returned(c) =>
           c.out.ret.url = ExpectedBaseUrl(c.before)
                             \o getFullPath(c.before, c.path, c.method).ret

(* a returned call on a document that declares two servers next to         *)
(* schemes, host and basePath: the url starts with the first server's url  *)
C11_Witness ==
  \E i \in EndpointCalls :
    LET c == calls[i] IN
    /\ Returned(c)
    /\ {"servers", "schemes", "host", "basePath"} \subseteq DOMAIN c.before
    /\ Len(c.before.servers) = 2
    /\ c.before.basePath = "/v1"
    /\ c.out.ret.url = "https://x.io//pets/42"

(***************************************************************************)
(* C12.  What the calls leave of the document.  The document the first     *)
(* call found is compared with the document as it is now.                  *)
(***************************************************************************)
InitialDocument == calls[1].before

SameBut(a, b, keys) ==
  DOMAIN a = DOMAIN b /\ \A k \in DOMAIN a \ keys : a[k] = b[k]

WithObjectType(schema) == ("type" :> "object") @@ schema

(* the slot held the placeholder and now holds what it references; with    *)
(* typed, a referenced schema that had no type may carry type object       *)
ResolvesTo(init, now, placeholder, slot, typed) ==
  /\ "$ref" \in DOMAIN placeholder
  /\ LET r == resolveRef(init, placeholder["$ref"]) IN
     /\ ~IsThrown(r)
     /\ \/ Deref(now, slot) = r.ret
        \/ /\ typed
           /\ r.ret # Undefined
           /\ "type" \notin DOMAIN r.ret
           /\ Deref(now, slot) = WithObjectType(r.ret)

ParamFrame(init, now, a, b, typed) ==
  \/ a = b
  \/ /\ "schema" \in DOMAIN a
     /\ SameBut(a, b, {"schema"})
     /\ ResolvesTo(init, now, a.schema, b.schema, typed)

ListFrame(init, now, as, bs, typed) ==
  /\ Len(as) = Len(bs)
  /\ \A i \in 1..Len(as) : ParamFrame(init, now, as[i], bs[i], typed)

OperationFrame(init, now, a, b, typed) ==
  /\ SameBut(a, b, {"parameters", "requestBody"})
  /\ "parameters" \in DOMAIN a =>
       ListFrame(init, now, a.parameters, b.parameters, typed)
  /\ "requestBody" \in DOMAIN a =>
       \/ a.requestBody = b.requestBody
       \/ ResolvesTo(init, now, a.requestBody, b.requestBody, FALSE)

PathItemFrame(init, now, a, b, typed) ==
  /\ DOMAIN a = DOMAIN b
  /\ \A k \in DOMAIN a :
       IF k = "parameters" THEN ListFrame(init, now, a[k], b[k], typed)
       ELSE OperationFrame(init, now, a[k], b[k], typed)

(* the schema of some parameter of the document is the object at loc *)
SharedBySomeParameter(now, loc) ==
  \/ \E p \in DOMAIN now.paths : \E k \in DOMAIN now.paths[p] :
       LET list == IF k = "parameters" THEN now.paths[p][k]
                   ELSE IF "parameters" \in DOMAIN now.paths[p][k]
                        THEN now.paths[p][k].parameters ELSE <<>>
       IN \E i \in 1..Len(list) :
            "schema" \in DOMAIN list[i] /\ list[i].schema = [alias |-> loc]
  \/ /\ "components" \in DOMAIN now
     /\ "parameters" \in DOMAIN now.components
     /\ \E n \in DOMAIN now.components.parameters :
          LET param == now.components.parameters[n] IN
          "schema" \in DOMAIN param /\ param.schema = [alias |-> loc]

(* the schemas kept under loc (definitions, components.schemas) *)
SchemasFrame(now, a, b, loc, typed) ==
  /\ DOMAIN a = DOMAIN b
  /\ \A n \in DOMAIN a :
       \/ a[n] = b[n]
       \/ /\ typed
          /\ "type" \notin DOMAIN a[n]
          /\ b[n] = WithObjectType(a[n])
          /\ SharedBySomeParameter(now, loc \o <<n>>)

ComponentsFrame(init, now, a, b, typed) ==
  /\ SameBut(a, b, {"parameters", "schemas"})
  /\ "parameters" \in DOMAIN a =>
       /\ DOMAIN a.parameters = DOMAIN b.parameters
       /\ \A n \in DOMAIN a.parameters :
            ParamFrame(init, now, a.parameters[n], b.parameters[n], typed)
  /\ "schemas" \in DOMAIN a =>
       SchemasFrame(now, a.schemas, b.schemas, <<"components", "schemas">>, typed)

Frame(init, now, typed) ==
  /\ SameBut(init, now, {"paths", "components", "definitions"})
  /\ DOMAIN init.paths = DOMAIN now.paths
  /\ \A p \in DOMAIN init.paths :
       PathItemFrame(init, now, init.paths[p], now.paths[p], typed)
  /\ "components" \in DOMAIN init =>
       ComponentsFrame(init, now, init.components, now.components, typed)
  /\ "definitions" \in DOMAIN init =>
       SchemasFrame(now, init.definitions, now.definitions, <<"definitions">>, typed)

(* C12 as stated: after any sequence of calls the document differs from    *)
(* its initial value only where a "$ref" placeholder (a parameter's schema *)
(* or an operation's requestBody) was replaced by the value it references; *)
(* every other field, those of the referenced definitions included, is     *)
(* unchanged                                                               *)
C12_Original ==
  Len(calls) >= 1 => Frame(InitialDocument, openApi, FALSE)

(***************************************************************************)
(* C12 as amended: after any sequence of calls the document differs from   *)
(* its initial value only where a "$ref" placeholder (a parameter's schema *)
(* or an operation's requestBody) was replaced by what the reference       *)
(* resolves to, and in the `type' of a schema that had none and that a     *)
(* parameter's schema placeholder resolved to: that schema, the shared     *)
(* definition itself, has been given type object.  Every other field is    *)
(* unchanged.                                                              *)
(***************************************************************************)
C12_Frame ==
  Len(calls) >= 1 => Frame(InitialDocument, openApi, TRUE)

(* two calls after which a parameter's schema placeholder holds the shared *)
(* schema Lim, and Lim, which had no type, has type object                 *)
C12_Witness ==
  /\ Len(calls) = 2
  /\ "components" \in DOMAIN openApi
  /\ "schemas" \in DOMAIN openApi.components
  /\ "Lim" \in DOMAIN openApi.components.schemas
  /\ "type" \notin DOMAIN InitialDocument.components.schemas.Lim
  /\ openApi.components.schemas.Lim = WithObjectType(InitialDocument.components.schemas.Lim)
  /\ SharedBySomeParameter(openApi, <<"components", "schemas", "Lim">>)
  /\ openApi # InitialDocument

====
